---- MODULE Spec2Model ----
(***************************************************************************)
(* Table properties dialog of the table plugin (ui/TableDialog.ts).        *)
(*                                                                         *)
(* A JavaScript string is a sequence of one-character strings, the value   *)
(* undefined is the one-element sequence Undef (what String(undefined)     *)
(* reads as when a regular expression is tested against it).  An object    *)
(* used as a map is a function whose DOMAIN is its set of own keys; an own *)
(* key may hold Undef.  An element is a record [tag, style, kids].         *)
(***************************************************************************)
EXTENDS Integers, Sequences, FiniteSets, TLC

VARIABLES settings, table, tableAttrs, dlg, isNew, tableElm, initialData,
          fields, body, formData, inserted, insertedAttrs, insertArgs,
          writtenAttrs, writtenStyle, log

vars == <<settings, table, tableAttrs, dlg, isNew, tableElm, initialData,
          fields, body, formData, inserted, insertedAttrs, insertArgs,
          writtenAttrs, writtenStyle, log>>

\* The largest number of elements of the table under the selection.
MaxNodes == 6

-----------------------------------------------------------------------------
\* Strings

Undef == <<"undefined">>
Empty == <<>>
Digits == {"0", "1", "2", "3", "4", "5", "6", "7", "8", "9"}
Px == <<"p", "x">>
S1 == <<"1">>
S2 == <<"2">>
S3 == <<"3">>
S50 == <<"5", "0">>
S200 == <<"2", "0", "0">>
S200px == <<"2", "0", "0", "p", "x">>
S300 == <<"3", "0", "0">>
S100pct == <<"1", "0", "0", "%">>
SLeft == <<"l", "e", "f", "t">>
SRed == <<"r", "e", "d">>
SC1 == <<"c", "1">>
SDflt == <<"d", "f", "l", "t">>
SChecked == <<"c", "h", "e", "c", "k", "e", "d">>
SCollapse == <<"c", "o", "l", "l", "a", "p", "s", "e">>
Marker == <<"m", "c", "e", "-", "i", "t", "e", "m", "-", "t", "a", "b", "l", "e">>
SMarkedC1 == Marker \o <<" ">> \o SC1

\* JavaScript truthiness of a string-or-undefined value.
Falsy(v) == v = Undef \/ v = Empty

-----------------------------------------------------------------------------
\* Objects used as maps

EmptyMap == [k \in {} |-> Empty]
Get(m, k) == IF k \in DOMAIN m THEN m[k] ELSE Undef
Put(m, k, v) == [x \in (DOMAIN m) \cup {k} |-> IF x = k THEN v ELSE m[x]]
Del(m, k) == [x \in (DOMAIN m) \ {k} |-> m[x]]

\* Merger.merge(a, b): every own key of a, then every own key of b over it.
Merge(a, b) == [x \in (DOMAIN a) \cup (DOMAIN b) |-> IF x \in DOMAIN b THEN b[x] ELSE a[x]]

-----------------------------------------------------------------------------
\* Util.addSizeSuffix: /^[0-9]+$/.test(size) ? size + 'px' : size
IsDigits(s) == Len(s) > 0 /\ \A i \in 1..Len(s) : s[i] \in Digits
addSizeSuffix(size) == IF IsDigits(size) THEN size \o Px ELSE size

\* Util.removePxSuffix: size ? size.replace(/px$/, '') : ''
EndsWithPx(s) == Len(s) >= 2 /\ SubSeq(s, Len(s) - 1, Len(s)) = Px
removePxSuffix(size) ==
  IF Falsy(size) THEN Empty
  ELSE IF EndsWithPx(size) THEN SubSeq(size, 1, Len(size) - 2) ELSE size

-----------------------------------------------------------------------------
\* Elements

CellTags == {"TD", "TH"}
Elem(t, k) == [tag |-> t, style |-> EmptyMap, kids |-> k]
Null == Elem("NONE", <<>>)

\* The element tags the tables of the document nest: rows in a table, cells
\* in a row, a table in a cell; a caption is a leaf.
ChildTags(t) ==
  CASE t = "TABLE" -> {"CAPTION", "TR"}
    [] t = "TR" -> {"TD", "TH"}
    [] t \in CellTags -> {"TABLE"}
    [] OTHER -> {}

RECURSIVE ForestOfSize(_, _)
RECURSIVE ElemOfSize(_, _)
ElemOfSize(t, n) == {Elem(t, f) : f \in ForestOfSize(t, n - 1)}
ForestOfSize(t, n) ==
  IF n = 0 THEN {<<>>}
  ELSE UNION {UNION {{<<e>> \o r : e \in ElemOfSize(c, m), r \in ForestOfSize(t, n - m)}
                     : c \in ChildTags(t)} : m \in 1..n}

\* Every table of at most MaxNodes elements, nested tables included.
NestedTables == UNION {ElemOfSize("TABLE", n) : n \in 1..MaxNodes}

\* Tables as the editor serializes them, with a body.
PlainTable == Elem("TABLE", <<Elem("TBODY", <<Elem("TR", <<Elem("TD", <<>>)>>)>>)>>)
CaptionedTable ==
  Elem("TABLE", <<Elem("CAPTION", <<>>), Elem("TBODY", <<Elem("TR", <<Elem("TH", <<>>)>>)>>)>>)

-----------------------------------------------------------------------------
\* DOMUtils

\* dom.setStyle(elm, map): an undefined value leaves the property alone, an
\* empty one removes it, any other value sets it.
setStyle(style, map) ==
  LET set == {k \in DOMAIN map : ~Falsy(map[k])}
      gone == {k \in DOMAIN map : map[k] = Empty}
  IN [k \in ((DOMAIN style) \cup set) \ gone |-> IF k \in set THEN map[k] ELSE style[k]]

\* dom.serializeStyle(styles): the properties that have a value.
serializeStyle(styles) == [k \in {x \in DOMAIN styles : ~Falsy(styles[x])} |-> styles[k]]

\* dom.getAttrib(elm, name): '' for an attribute the element does not have.
getAttrib(attrs, name) == IF name \in DOMAIN attrs THEN attrs[name] ELSE Empty

\* dom.setAttribs(elm, map), the style entry apart: an undefined value leaves
\* the attribute alone, an empty one removes it, any other value sets it.
setAttribs(attrs, map) ==
  LET set == {k \in DOMAIN map : ~Falsy(map[k])}
      gone == {k \in DOMAIN map : map[k] = Empty}
  IN [k \in ((DOMAIN attrs) \cup set) \ gone |-> IF k \in set THEN map[k] ELSE attrs[k]]

\* dom.select('caption', elm)[0] as the path (child indices) of the first
\* caption among the descendants of elm in document order; <<>> when none.
RECURSIVE selectCaption(_, _)
selectCaption(kids, i) ==
  IF i > Len(kids) THEN <<>>
  ELSE IF kids[i].tag = "CAPTION" THEN <<i>>
  ELSE LET p == selectCaption(kids[i].kids, 1)
       IN IF p # <<>> THEN <<i>> \o p ELSE selectCaption(kids, i + 1)

\* dom.remove(node) of the node at path p below elm.
DropAt(seq, i) == SubSeq(seq, 1, i - 1) \o SubSeq(seq, i + 1, Len(seq))
RECURSIVE remove(_, _)
remove(elm, p) ==
  IF Len(p) = 1 THEN [elm EXCEPT !.kids = DropAt(elm.kids, p[1])]
  ELSE [elm EXCEPT !.kids = [i \in 1..Len(elm.kids) |->
                               IF i = p[1] THEN remove(elm.kids[i], Tail(p)) ELSE elm.kids[i]]]

-----------------------------------------------------------------------------
\* styleTDTH: style the first layer of cells below elm

\* styleTDTH as it would be if it went on below a cell.
RECURSIVE styleTDTHDeep(_, _)
styleTDTHDeep(elm, map) ==
  [elm EXCEPT !.style = IF elm.tag = "TD" \/ elm.tag = "TH" THEN setStyle(elm.style, map)
                        ELSE elm.style,
              !.kids = [i \in 1..Len(elm.kids) |-> styleTDTHDeep(elm.kids[i], map)]]

RECURSIVE styleTDTH(_, _)
styleTDTH(elm, map) ==
  IF elm.tag = "TD" \/ elm.tag = "TH"
  THEN [elm EXCEPT !.style = setStyle(elm.style, map)]
  ELSE [elm EXCEPT !.kids = [i \in 1..Len(elm.kids) |-> styleTDTH(elm.kids[i], map)]]

-----------------------------------------------------------------------------
\* applyDataToElement

\* dataAttrs as it would be if it set the three attributes in CSS mode too.
dataAttrsAlways(elmAttrs, data, s) ==
  LET a1 == Put(EmptyMap, "class", Get(data, "class"))
      a2 == IF ~Falsy(getAttrib(elmAttrs, "width")) /\ ~s.css
            THEN Put(a1, "width", removePxSuffix(Get(data, "width")))
            ELSE a1
  IN Put(Put(Put(a2, "border", Get(data, "border")),
             "cellpadding", Get(data, "cellpadding")),
         "cellspacing", Get(data, "cellspacing"))

\* dataAttrs as it would be if it kept the px suffix of the width.
dataAttrsNoStrip(elmAttrs, data, s) ==
  LET a1 == Put(EmptyMap, "class", Get(data, "class"))
      a2 == IF ~Falsy(getAttrib(elmAttrs, "width")) /\ ~s.css
            THEN Put(a1, "width", Get(data, "width"))
            ELSE a1
  IN IF s.css THEN a2
     ELSE Put(Put(Put(a2, "border", Get(data, "border")),
                  "cellpadding", Get(data, "cellpadding")),
              "cellspacing", Get(data, "cellspacing"))

\* attrs, before the merge with the default attributes and without its
\* style entry.
dataAttrs(elmAttrs, data, s) ==
  LET a1 == Put(EmptyMap, "class", Get(data, "class"))
      a2 == IF ~Falsy(getAttrib(elmAttrs, "width")) /\ ~s.css
            THEN Put(a1, "width", removePxSuffix(Get(data, "width")))
            ELSE a1
  IN IF s.css THEN a2
     ELSE Put(Put(Put(a2, "border", Get(data, "border")),
                  "cellpadding", Get(data, "cellpadding")),
              "cellspacing", Get(data, "cellspacing"))

\* styles, before the merge with the default styles.
dataStyles(elmAttrs, data, s) ==
  LET s1 == Put(EmptyMap, "height", addSizeSuffix(Get(data, "height")))
      s2 == IF ~Falsy(getAttrib(elmAttrs, "width")) /\ ~s.css
            THEN s1
            ELSE Put(s1, "width", addSizeSuffix(Get(data, "width")))
      s3 == IF s.css
            THEN Put(Put(s2, "border-width", addSizeSuffix(Get(data, "border"))),
                     "border-spacing", addSizeSuffix(Get(data, "cellspacing")))
            ELSE s2
  IN IF s.adv
     THEN Put(Put(Put(s3, "background-color", Get(data, "backgroundcolor")),
                  "border-color", Get(data, "bordercolor")),
              "border-style", Get(data, "borderstyle"))
     ELSE s3

\* styleChildren as it would be if it styled the cells only with the
\* advanced tab.
styleChildrenAdvanced(elm, data, s) ==
  LET sizes == Put(Put(EmptyMap, "border-width", addSizeSuffix(Get(data, "border"))),
                   "padding", addSizeSuffix(Get(data, "cellpadding")))
      color == Put(EmptyMap, "border-color", Get(data, "bordercolor"))
      child(c) == styleTDTH(styleTDTH(c, sizes), color)
  IN IF s.css /\ s.adv
     THEN [elm EXCEPT !.kids = [i \in 1..Len(elm.kids) |-> child(elm.kids[i])]]
     ELSE elm

\* The styling of the cells below each child of the table.
styleChildren(elm, data, s) ==
  LET sizes == Put(Put(EmptyMap, "border-width", addSizeSuffix(Get(data, "border"))),
                   "padding", addSizeSuffix(Get(data, "cellpadding")))
      color == Put(EmptyMap, "border-color", Get(data, "bordercolor"))
      child(c) == IF s.adv THEN styleTDTH(styleTDTH(c, sizes), color)
                  ELSE styleTDTH(c, sizes)
  IN IF s.css
     THEN [elm EXCEPT !.kids = [i \in 1..Len(elm.kids) |-> child(elm.kids[i])]]
     ELSE elm

\* The number of dom.setStyle calls styleTDTH makes below elm.
RECURSIVE cellsReached(_)
RECURSIVE cellsReachedIn(_, _)
cellsReached(elm) ==
  IF elm.tag = "TD" \/ elm.tag = "TH" THEN 1 ELSE cellsReachedIn(elm.kids, 1)
cellsReachedIn(kids, i) ==
  IF i > Len(kids) THEN 0 ELSE cellsReached(kids[i]) + cellsReachedIn(kids, i + 1)

\* The element and its attributes after applyDataToElement, the two maps it
\* hands to dom.setAttribs, and the DOM calls it makes, in order.
applyDataToElement(elm, elmAttrs, data, s) ==
  LET attrs == dataAttrs(elmAttrs, data, s)
      styles == dataStyles(elmAttrs, data, s)
      styled == styleChildren(elm, data, s)
      style == serializeStyle(Merge(s.defaultStyles, styles))
      merged == Merge(s.defaultAttributes, attrs)
      n == IF s.css THEN cellsReachedIn(elm.kids, 1) * (IF s.adv THEN 2 ELSE 1) ELSE 0
  IN [elm |-> [styled EXCEPT !.style = style],
      attrs |-> setAttribs(elmAttrs, merged),
      writtenAttrs |-> merged,
      writtenStyle |-> style,
      calls |-> [i \in 1..n |-> "setStyle"] \o <<"setAttribs">>]

-----------------------------------------------------------------------------
\* Collaborators of the submit handler

\* InsertTable.insert(editor, cols, rows): the table it creates.
insert(cols, rows) == PlainTable

\* Styles.unApplyAlign and Styles.applyAlign on the table's style.
AlignProps == {"float", "margin-left", "margin-right"}
unApplyAlign(style) == [k \in (DOMAIN style) \ AlignProps |-> style[k]]
applyAlign(style, name) == Put(unApplyAlign(style), "float", name)

\* The caption the handler creates: a bogus br in it, or a no-break space
\* (a text node) on IE.
newCaption(s) == Elem("CAPTION", IF s.ie THEN <<>> ELSE <<Elem("BR", <<>>)>>)

\* data.cols || '1'
OrOne(v) == IF Falsy(v) THEN S1 ELSE v

-----------------------------------------------------------------------------
\* onSubmitTableForm

\* submitCalls as it would be if the dialog were closed after the transaction.
submitCallsLate(txn) == <<"getData", "transact">> \o txn \o <<"transacted", "close">>

\* The calls of the handler in order, txn those of the transaction's callback.
submitCalls(txn) == <<"getData", "close", "transact">> \o txn \o <<"transacted">>

\* The calls of the caption toggle and of the alignment.
toggleCaption(elm, data, s) ==
  LET p == selectCaption(elm.kids, 1)
      e1 == IF p # <<>> /\ Get(data, "caption") # SChecked THEN remove(elm, p) ELSE elm
  IN IF p = <<>> /\ Get(data, "caption") = SChecked
     THEN [e1 EXCEPT !.kids = <<newCaption(s)>> \o e1.kids]
     ELSE e1
captionCalls(elm, data) ==
  LET p == selectCaption(elm.kids, 1)
  IN (IF p # <<>> /\ Get(data, "caption") # SChecked THEN <<"remove">> ELSE <<>>)
     \o (IF p = <<>> /\ Get(data, "caption") = SChecked THEN <<"insertBefore">> ELSE <<>>)

align(elm, data) ==
  IF Get(data, "align") = Empty
  THEN [elm EXCEPT !.style = unApplyAlign(elm.style)]
  ELSE [elm EXCEPT !.style = applyAlign(elm.style, Get(data, "align"))]
alignCalls(data) == IF Get(data, "align") = Empty THEN <<"unApplyAlign">> ELSE <<"applyAlign">>

\* data after `if (data.class === '') delete data.class`
normalize(raw) == IF Get(raw, "class") = Empty THEN Del(raw, "class") ELSE raw

\* The whole handler on the element the dialog was opened for (Null: none).
onSubmitTableForm(bound, boundAttrs, raw, s) ==
  LET data == normalize(raw)
      fresh == bound = Null
      elm0 == IF fresh THEN insert(OrOne(Get(data, "cols")), OrOne(Get(data, "rows"))) ELSE bound
      attrs0 == IF fresh THEN EmptyMap ELSE boundAttrs
      r == applyDataToElement(elm0, attrs0, data, s)
      e1 == toggleCaption(r.elm, data, s)
      e2 == align(e1, data)
  IN [elm |-> e2,
      attrs |-> r.attrs,
      fresh |-> fresh,
      insertArgs |-> IF fresh THEN <<OrOne(Get(data, "cols")), OrOne(Get(data, "rows"))>>
                     ELSE <<>>,
      writtenAttrs |-> r.writtenAttrs,
      writtenStyle |-> r.writtenStyle,
      log |-> submitCalls((IF fresh THEN <<"insert">> ELSE <<>>) \o r.calls
                          \o captionCalls(r.elm, data) \o alignCalls(data)
                          \o <<"focus", "addVisual">>)]

-----------------------------------------------------------------------------
\* Helpers

OrEmpty(v) == IF v = Undef THEN Empty ELSE v

\* Helpers.extractDataFromSettings: the form data the default attributes and
\* styles give.
extractDataFromSettings(s) ==
  LET base == [width |-> OrEmpty(Get(s.defaultStyles, "width")),
               height |-> OrEmpty(Get(s.defaultStyles, "height")),
               cellspacing |-> OrEmpty(Get(s.defaultAttributes, "cellspacing")),
               cellpadding |-> OrEmpty(Get(s.defaultAttributes, "cellpadding")),
               border |-> OrEmpty(Get(s.defaultAttributes, "border")),
               caption |-> Empty,
               class |-> OrEmpty(Get(s.defaultAttributes, "class")),
               align |-> Empty]
  IN IF s.adv
     THEN Put(Put(Put(base, "borderstyle", OrEmpty(Get(s.defaultStyles, "border-style"))),
                  "bordercolor", OrEmpty(Get(s.defaultStyles, "border-color"))),
              "backgroundcolor", OrEmpty(Get(s.defaultStyles, "background-color")))
     ELSE base

\* Helpers.extractDataFromTableElement: the form data the table gives.
extractDataFromTableElement(elm, attrs, s) ==
  LET base == [width |-> IF ~Falsy(getAttrib(attrs, "width")) THEN attrs["width"]
                         ELSE OrEmpty(Get(elm.style, "width")),
               height |-> OrEmpty(Get(elm.style, "height")),
               cellspacing |-> getAttrib(attrs, "cellspacing"),
               cellpadding |-> getAttrib(attrs, "cellpadding"),
               border |-> getAttrib(attrs, "border"),
               caption |-> IF selectCaption(elm.kids, 1) # <<>> THEN SChecked ELSE Empty,
               class |-> getAttrib(attrs, "class"),
               align |-> OrEmpty(Get(elm.style, "float"))]
  IN IF s.adv
     THEN Put(Put(Put(base, "borderstyle", OrEmpty(Get(elm.style, "border-style"))),
                  "bordercolor", OrEmpty(Get(elm.style, "border-color"))),
              "backgroundcolor", OrEmpty(Get(elm.style, "background-color")))
     ELSE base

\* The fields of Helpers.getAdvancedTab().
AdvancedTabFields == {"borderstyle", "bordercolor", "backgroundcolor"}

-----------------------------------------------------------------------------
\* open

\* str.replace(/\s*mce\-item\-table\s*/g, '')
RECURSIVE Spaces(_, _)
Spaces(str, i) == IF i <= Len(str) /\ str[i] = " " THEN 1 + Spaces(str, i + 1) ELSE 0
MarkerAt(str, i) ==
  i + Len(Marker) - 1 <= Len(str) /\ SubSeq(str, i, i + Len(Marker) - 1) = Marker
RECURSIVE stripMarkerFrom(_, _)
stripMarkerFrom(str, i) ==
  IF i > Len(str) THEN <<>>
  ELSE LET k == Spaces(str, i)
           j == i + k + Len(Marker)
       IN IF MarkerAt(str, i + k)
          THEN stripMarkerFrom(str, j + Spaces(str, j))
          ELSE <<str[i]>> \o stripMarkerFrom(str, i + 1)
stripMarker(str) == stripMarkerFrom(str, 1)

\* The three advanced fields blanked when the dialog has the advanced tab.
blankAdvanced(data, s) ==
  IF s.adv
  THEN Put(Put(Put(data, "borderstyle", Empty), "bordercolor", Empty), "backgroundcolor", Empty)
  ELSE data

\* resolveTableElm as it would be if an absent isNew meant editing in place.
resolveTableElmLoose(n, elm) ==
  IF n # "true" THEN (IF elm = Null THEN "null" ELSE "table") ELSE "undefined"

\* tableElm: the table around the selection when isNew === false, else
\* undefined.  dom.getParent gives null outside a table.
resolveTableElm(n, elm) ==
  IF n = "false" THEN (IF elm = Null THEN "null" ELSE "table") ELSE "undefined"

\* openData as it would be if cols and rows were set for isNew === true only.
openDataStrict(n, elm, attrs, s) ==
  IF n = "false"
  THEN IF elm # Null
       THEN extractDataFromTableElement(elm, attrs, s)
       ELSE blankAdvanced(extractDataFromSettings(s), s)
  ELSE IF n = "true"
       THEN blankAdvanced(Put(Put(extractDataFromSettings(s), "cols", S1), "rows", S1), s)
       ELSE blankAdvanced(extractDataFromSettings(s), s)

\* data before the class list is looked at.
openData(n, elm, attrs, s) ==
  IF n = "false"
  THEN IF elm # Null
       THEN extractDataFromTableElement(elm, attrs, s)
       ELSE blankAdvanced(extractDataFromSettings(s), s)
  ELSE blankAdvanced(Put(Put(extractDataFromSettings(s), "cols", S1), "rows", S1), s)

\* initialData: data with the marker class stripped when a class list is set.
openInitialData(n, elm, attrs, s) ==
  LET data == openData(n, elm, attrs, s)
  IN IF s.classList /\ ~Falsy(Get(data, "class"))
     THEN Put(data, "class", stripMarker(data["class"]))
     ELSE data

\* The names of the fields of the dialog body.
openFields(n, s) ==
  (IF n = "true" THEN {"cols", "rows"} ELSE {})
  \cup {"width", "height"}
  \cup (IF s.appearance THEN {"cellspacing", "cellpadding", "border", "caption"} ELSE {})
  \cup {"align"}
  \cup (IF s.classList THEN {"class"} ELSE {})
  \cup (IF s.adv THEN AdvancedTabFields ELSE {})

openBody(s) == IF s.adv THEN "tabpanel" ELSE "panel"

-----------------------------------------------------------------------------
\* What the user can type into a field.

FieldValues(k) ==
  CASE k = "width" -> {S200, S200px}
    [] k = "height" -> {S50}
    [] k = "cellspacing" -> {S3}
    [] k = "cellpadding" -> {S2}
    [] k = "border" -> {Empty, S1}
    [] k = "caption" -> {Empty, SChecked}
    [] k = "align" -> {Empty, SLeft}
    [] k = "class" -> {Empty, SC1}
    [] k = "cols" -> {Empty, S2}
    [] k = "rows" -> {Empty, S3}
    [] k = "bordercolor" -> {Empty, SRed}
    [] OTHER -> {Empty}

FieldNames == {"cols", "rows", "width", "height", "cellspacing", "cellpadding", "border",
               "caption", "align", "class"} \cup AdvancedTabFields

\* api.getData(): a value for each field of the dialog.
RECURSIVE getData(_)
getData(fs) ==
  IF fs = {} THEN {EmptyMap}
  ELSE LET k == CHOOSE x \in fs : TRUE
       IN {Put(m, k, v) : m \in getData(fs \ {k}), v \in FieldValues(k)}

-----------------------------------------------------------------------------
\* The editor's settings and the table around the selection.

NoDefaults == [attrs |-> EmptyMap, styles |-> EmptyMap]
SomeDefaults ==
  [attrs |-> [border |-> S1, class |-> SDflt],
   styles |-> Put(Put(Put(EmptyMap, "width", S100pct), "border-collapse", SCollapse),
                  "border-width", S2 \o Px)]

Settings(css, adv, appearance, classList, ie, d) ==
  [css |-> css, adv |-> adv, appearance |-> appearance, classList |-> classList,
   ie |-> ie, defaultAttributes |-> d.attrs, defaultStyles |-> d.styles]

AllSettings ==
  {Settings(c, a, p, l, i, d) : c \in BOOLEAN, a \in BOOLEAN, p \in BOOLEAN,
                                l \in BOOLEAN, i \in BOOLEAN, d \in {NoDefaults, SomeDefaults}}

\* isNew: true, false or absent.
IsNewValues == {"true", "false", "undefined"}

Start(ss, tables, attrs) ==
  /\ settings \in ss
  /\ table \in tables
  /\ tableAttrs \in IF table = Null THEN {EmptyMap} ELSE attrs
  /\ dlg = "none"
  /\ isNew = "undefined"
  /\ tableElm = "undefined"
  /\ initialData = EmptyMap
  /\ fields = {}
  /\ body = "none"
  /\ formData = EmptyMap
  /\ inserted = Null
  /\ insertedAttrs = EmptyMap
  /\ insertArgs = <<>>
  /\ writtenAttrs = EmptyMap
  /\ writtenStyle = EmptyMap
  /\ log = <<>>

\* The selection outside a table, or in a table as the editor serializes it.
Init ==
  Start(AllSettings, {Null, PlainTable, CaptionedTable},
        {EmptyMap, [width |-> S300, class |-> SMarkedC1]})

\* open(editor, isNew): the dialog opens on the initial data.
Open(n) ==
  /\ dlg = "none"
  /\ dlg' = "open"
  /\ isNew' = n
  /\ tableElm' = resolveTableElm(n, table)
  /\ initialData' = openInitialData(n, table, tableAttrs, settings)
  /\ fields' = openFields(n, settings)
  /\ body' = openBody(settings)
  /\ UNCHANGED <<settings, table, tableAttrs, formData, inserted, insertedAttrs,
                 insertArgs, writtenAttrs, writtenStyle, log>>

\* The Save button: onSubmitTableForm on the data of the form.
Submit ==
  /\ dlg = "open"
  /\ \E raw \in getData(fields) :
       \E r \in {onSubmitTableForm(IF tableElm = "table" THEN table ELSE Null,
                                   tableAttrs, raw, settings)} :
          /\ dlg' = "submitted"
          /\ formData' = raw
          /\ table' = IF r.fresh THEN table ELSE r.elm
          /\ tableAttrs' = IF r.fresh THEN tableAttrs ELSE r.attrs
          /\ inserted' = IF r.fresh THEN r.elm ELSE inserted
          /\ insertedAttrs' = IF r.fresh THEN r.attrs ELSE insertedAttrs
          /\ insertArgs' = r.insertArgs
          /\ writtenAttrs' = r.writtenAttrs
          /\ writtenStyle' = r.writtenStyle
          /\ log' = r.log
  /\ UNCHANGED <<settings, isNew, tableElm, initialData, fields, body>>

\* The Cancel button: the dialog closes and the submit handler never runs.
Cancel ==
  /\ dlg = "open"
  /\ dlg' = "cancelled"
  /\ UNCHANGED <<settings, table, tableAttrs, isNew, tableElm, initialData, fields, body,
                 formData, inserted, insertedAttrs, insertArgs, writtenAttrs,
                 writtenStyle, log>>

\* One dialog from open to Save or Cancel: every open call is independent and
\* starts from any table the document can hold.
Next == (\E n \in IsNewValues : Open(n)) \/ Submit \/ Cancel

Spec == Init /\ [][Next]_vars

\* The mceTableProps command, open(editor, false), in a table that may nest
\* tables in its cells.
PropsSettings ==
  {Settings(c, a, TRUE, FALSE, FALSE, NoDefaults) : c \in BOOLEAN, a \in BOOLEAN}
InitProps == Start(PropsSettings, NestedTables, {EmptyMap})
NextProps == Open("false") \/ Submit \/ Cancel
SpecProps == InitProps /\ [][NextProps]_vars

-----------------------------------------------------------------------------
\* The elements below a table, by their styles.

IsCell(elm) == elm.tag \in CellTags
Kids(elm) == {elm.kids[i] : i \in 1..Len(elm.kids)}

RECURSIVE AllStyles(_)
AllStyles(elm) == {elm.style} \cup UNION {AllStyles(k) : k \in Kids(elm)}

\* The cells, and the elements that are no cells.
RECURSIVE CellStyles(_)
CellStyles(elm) ==
  (IF IsCell(elm) THEN {elm.style} ELSE {}) \cup UNION {CellStyles(k) : k \in Kids(elm)}
RECURSIVE NonCellStyles(_)
NonCellStyles(elm) ==
  (IF IsCell(elm) THEN {} ELSE {elm.style}) \cup UNION {NonCellStyles(k) : k \in Kids(elm)}

\* The cells with no cell above them, the cells with one, and every element
\* that is not a cell of the first layer.
RECURSIVE FirstCellStyles(_)
FirstCellStyles(elm) ==
  IF IsCell(elm) THEN {elm.style} ELSE UNION {FirstCellStyles(k) : k \in Kids(elm)}
RECURSIVE NestedCellStyles(_)
NestedCellStyles(elm) ==
  IF IsCell(elm) THEN UNION {CellStyles(k) : k \in Kids(elm)}
  ELSE UNION {NestedCellStyles(k) : k \in Kids(elm)}
RECURSIVE OtherStyles(_)
OtherStyles(elm) ==
  IF IsCell(elm) THEN UNION {AllStyles(k) : k \in Kids(elm)}
  ELSE {elm.style} \cup UNION {OtherStyles(k) : k \in Kids(elm)}

Below(elm, F(_)) == UNION {F(k) : k \in Kids(elm)}

\* The captions that are children of the table, and those of the tables
\* nested in it.
OwnCaptions(elm) == {i \in 1..Len(elm.kids) : elm.kids[i].tag = "CAPTION"}
RECURSIVE Captions(_)
RECURSIVE CaptionsIn(_, _)
Captions(elm) == (IF elm.tag = "CAPTION" THEN 1 ELSE 0) + CaptionsIn(elm.kids, 1)
CaptionsIn(kids, i) == IF i > Len(kids) THEN 0 ELSE Captions(kids[i]) + CaptionsIn(kids, i + 1)
NestedCaptions(elm) == CaptionsIn(elm.kids, 1) - Cardinality(OwnCaptions(elm))

Calls(op) == {i \in 1..Len(log) : log[i] = op}
Mutations == {"insert", "setStyle", "setAttribs", "remove", "insertBefore",
              "applyAlign", "unApplyAlign"}
Submitting == dlg = "open" /\ dlg' = "submitted"

-----------------------------------------------------------------------------
\* C1 as claimed: after a submit in CSS mode with border "1", every cell below
\* the table, however deep, carries the border width, and no other element
\* below the table carries a style.
C1_EveryCellStyled ==
  (dlg = "submitted" /\ settings.css /\ Get(formData, "border") = S1)
    => /\ \A st \in Below(table, CellStyles) : Get(st, "border-width") = S1 \o Px
       /\ \A st \in Below(table, NonCellStyles) : st = EmptyMap

\* C1 amended: after a submit in CSS mode with border "1", every cell with no
\* cell above it carries the border width, and no other element below the
\* table (a cell of a nested table included) carries a style.
C1_FirstLayerStyled ==
  (dlg = "submitted" /\ settings.css /\ Get(formData, "border") = S1)
    => /\ \A st \in Below(table, FirstCellStyles) : Get(st, "border-width") = S1 \o Px
       /\ \A st \in Below(table, OtherStyles) : st = EmptyMap

C1_Witness ==
  /\ dlg = "submitted" /\ settings.css /\ Get(formData, "border") = S1
  /\ \E st \in Below(table, FirstCellStyles) : Get(st, "border-width") = S1 \o Px
  /\ \E st \in Below(table, NestedCellStyles) : st = EmptyMap

\* C2 as claimed: in CSS mode the attribute map written to the table has no
\* border, cellpadding or cellspacing; otherwise the style written has no
\* border-width or border-spacing.
C2_NeverSet ==
  dlg = "submitted"
    => /\ settings.css
            => {"border", "cellpadding", "cellspacing"} \cap DOMAIN writtenAttrs = {}
       /\ ~settings.css
            => {"border-width", "border-spacing"} \cap DOMAIN writtenStyle = {}

\* C2 amended: in CSS mode the attribute map written to the table has border,
\* cellpadding or cellspacing only as the default attributes give them;
\* otherwise the style written has border-width or border-spacing only as the
\* default styles give them.
C2_OnlyDefaults ==
  dlg = "submitted"
    => /\ settings.css
            => \A k \in {"border", "cellpadding", "cellspacing"} \cap DOMAIN writtenAttrs :
                 /\ k \in DOMAIN settings.defaultAttributes
                 /\ writtenAttrs[k] = settings.defaultAttributes[k]
       /\ ~settings.css
            => \A k \in {"border-width", "border-spacing"} \cap DOMAIN writtenStyle :
                 /\ k \in DOMAIN settings.defaultStyles
                 /\ writtenStyle[k] = settings.defaultStyles[k]

C2_Witness ==
  /\ dlg = "submitted" /\ settings.css
  /\ Get(formData, "border") = Empty
  /\ Get(writtenAttrs, "border") = S1

\* C3: after a submit of class '', the attribute map written to the table
\* carries the default class when the default attributes define one.
C3_DefaultClassKept ==
  (dlg = "submitted" /\ Get(formData, "class") = Empty
     /\ "class" \in DOMAIN settings.defaultAttributes)
    => Get(writtenAttrs, "class") = settings.defaultAttributes["class"]

\* C4 as claimed: a submit without CSS mode on a table that has a width
\* attribute, with width "200" or "200px", leaves the width attribute "200"
\* and no width style on the table.
C4_NoWidthStyle ==
  [][(Submitting /\ tableElm = "table" /\ ~settings.css
        /\ ~Falsy(getAttrib(tableAttrs, "width"))
        /\ Get(formData', "width") \in {S200, S200px})
       => /\ getAttrib(tableAttrs', "width") = S200
          /\ "width" \notin DOMAIN table'.style]_vars

\* C4 amended: a submit without CSS mode on a table that has a width
\* attribute, with width "200" or "200px", leaves the width attribute "200",
\* and a width style on the table only as the default styles give it.
C4_WidthAttribute ==
  [][(Submitting /\ tableElm = "table" /\ ~settings.css
        /\ ~Falsy(getAttrib(tableAttrs, "width"))
        /\ Get(formData', "width") \in {S200, S200px})
       => /\ getAttrib(tableAttrs', "width") = S200
          /\ "width" \in DOMAIN table'.style
               => /\ "width" \in DOMAIN settings.defaultStyles
                  /\ table'.style["width"] = settings.defaultStyles["width"]]_vars

C4_Witness ==
  /\ dlg = "submitted" /\ tableElm = "table" /\ ~settings.css
  /\ Get(formData, "width") = S200px
  /\ getAttrib(tableAttrs, "width") = S200
  /\ Get(table.style, "width") = S100pct

\* C5: a submit with caption "checked" on a table with no caption child
\* leaves a caption as the first child of the table.
C5_CaptionInserted ==
  [][(Submitting /\ tableElm = "table" /\ Get(formData', "caption") = SChecked
        /\ OwnCaptions(table) = {})
       => /\ Len(table'.kids) > 0
          /\ table'.kids[1].tag = "CAPTION"]_vars

\* C6: a submit with caption not "checked" on a table with a caption child
\* removes that caption and no caption of a nested table.
C6_OwnCaptionRemoved ==
  [][(Submitting /\ tableElm = "table" /\ Get(formData', "caption") # SChecked
        /\ OwnCaptions(table) # {})
       => /\ Cardinality(OwnCaptions(table')) = Cardinality(OwnCaptions(table)) - 1
          /\ NestedCaptions(table') = NestedCaptions(table)]_vars

\* C7: a submit closes the dialog before the first mutation, opens one
\* transaction and makes every mutation inside it; nothing but a submit
\* makes a call or changes a table.
C7_CloseThenOneTransaction ==
  /\ [](dlg = "submitted"
          => /\ Cardinality(Calls("close")) = 1
             /\ Cardinality(Calls("transact")) = 1
             /\ Cardinality(Calls("transacted")) = 1
             /\ \A i \in 1..Len(log) :
                  log[i] \in Mutations
                    => /\ \A c \in Calls("close") : c < i
                       /\ \A b \in Calls("transact") : b < i
                       /\ \A e \in Calls("transacted") : i < e)
  /\ [](dlg # "submitted" => log = <<>>)
  /\ [][~Submitting => UNCHANGED <<table, tableAttrs, inserted, insertedAttrs>>]_vars

C7_Witness ==
  /\ dlg = "submitted"
  /\ Calls("insert") # {} /\ Calls("setAttribs") # {} /\ Calls("insertBefore") # {}
  /\ Calls("applyAlign") # {}

\* C8 as claimed: after a submit in CSS mode without the advanced tab, no
\* element below the table carries a style.
C8_CellsUnchanged ==
  (dlg = "submitted" /\ settings.css /\ ~settings.adv)
    => \A st \in Below(table, AllStyles) : st = EmptyMap

\* C8 amended: after a submit in CSS mode, with or without the advanced tab,
\* the cells of the first layer carry the padding and, for border "1", the
\* border width; a border colour is on a cell only in CSS mode with the
\* advanced tab; without CSS mode no element below the table carries a style.
C8_CssStylesCells ==
  dlg = "submitted"
    => /\ settings.css
            => \A st \in Below(table, FirstCellStyles) :
                 /\ Get(st, "padding") = S2 \o Px
                 /\ Get(formData, "border") = S1 => Get(st, "border-width") = S1 \o Px
       /\ \A st \in Below(table, AllStyles) :
            "border-color" \in DOMAIN st => settings.css /\ settings.adv
       /\ ~settings.css => \A st \in Below(table, AllStyles) : st = EmptyMap

C8_Witness ==
  /\ dlg = "submitted" /\ settings.css /\ ~settings.adv
  /\ Get(formData, "border") = S1
  /\ \E st \in Below(table, FirstCellStyles) :
       Get(st, "padding") = S2 \o Px /\ Get(st, "border-width") = S1 \o Px

====
